---- MODULE Spec2Model ----
(***************************************************************************)
(* Model of the REST document store: the filesystem storage backend        *)
(* (database.StorageDatabase) and the request handlers of service.Server   *)
(* that call it and notify the change broker.                              *)
(*                                                                         *)
(* Names (namespaces, keys, file names) are sequences of characters and    *)
(* payloads are sequences of bytes, so that the key <-> file-name mapping  *)
(* and a short write are computed, not assumed.  Every request handler is  *)
(* one action.  The outcome of each system call a handler makes is an      *)
(* input of the action: it either behaves as the file system state         *)
(* dictates or fails (fault), at most MaxFaults times in a behaviour.      *)
(* The model covers the configuration AuthEnabled = false.                 *)
(*                                                                         *)
(* Three specifications share the state.  Spec serves requests one at a    *)
(* time, each handler one action, with failing system calls.  SpecNotify   *)
(* serves a mutating request in the steps backend call, Notify, response,  *)
(* next to the broker's consumer and its subscribers.  SpecConc serves     *)
(* requests concurrently, each backend call in the steps of its system     *)
(* calls, with no failing system call.                                     *)
(***************************************************************************)
EXTENDS Naturals, Sequences, FiniteSets, TLC

\* ------------------------------------------------------------------ bounds
MaxFaults == 1

\* The capacity of the broker's Notifier channel and of a subscriber's queue,
\* and the number of requests served in a run of the broker specification.
NotifierCap == 1

SubscriberCap == 1

MaxRequests == 2

\* The number of requests served in a run of the concurrent specification.
MaxConcRequests == 4

\* --------------------------------------------------------------- constants
StatusOK == 200
StatusCreated == 201
StatusAccepted == 202
StatusBadRequest == 400
StatusNotFound == 404
StatusInternalServerError == 500
StatusNotImplemented == 501

NoErr == "nil"
ID_NOT_FOUND == "ID_NOT_FOUND"
NAMESPACE_NOT_FOUND == "NAMESPACE_NOT_FOUND"
FILESYSTEM_ERROR == "FILESYSTEM_ERROR"

EVENT_ITEM_ADDED == "ITEM_ADDED"
EVENT_ITEM_DELETED == "ITEM_DELETED"
EVENT_NAMESPACE_DELETED == "NAMESPACE_DELETED"

\* SchemaId = "_schema"
SchemaId == <<"_", "s", "c", "h", "e", "m", "a">>

\* ------------------------------------------------------------------ inputs
\* Route variables matching [a-zA-Z0-9]+ .
Namespaces == {<<"u">>}
Keys == {<<"1">>, <<"2">>}

\* Request bodies, as sequences of chunks of bytes: a JSON object with member
\* n, a JSON object without it, and bytes that are not JSON (an object cut
\* before its closing brace).
Good == <<"{n", "}">>
Bad == <<"{a", "}">>
Junk == <<"{n">>
DataBodies == {Good, Bad, Junk}
\* A JSON-schema document requiring member n, and bytes that are not JSON.
SchemaDoc == <<"{r", "}">>
SchemaBodies == {SchemaDoc, Junk}

\* Optional values are sequences of length at most one.
None == <<>>
Some(x) == <<x>>

\* ------------------------------------------------------------- file system
\* A file system state under RootDirPath: directory name -> file name -> bytes.
EmptyFs == <<>>

DirExists(f, dir) == dir \in DOMAIN f

FileExists(f, dir, name) == dir \in DOMAIN f /\ name \in DOMAIN f[dir]

\* The content of a file, None when it does not exist.
Content(f, dir, name) == IF FileExists(f, dir, name) THEN Some(f[dir][name]) ELSE None

Without(g, x) == [y \in DOMAIN g \ {x} |-> g[y]]

Restrict(g, S) == [y \in DOMAIN g \cap S |-> g[y]]

\* os.MkdirAll of one directory below the root.
MkdirAll(f, dir) == IF DirExists(f, dir) THEN f ELSE (dir :> <<>>) @@ f

\* A write that opens the file for append instead of truncating it.
PutFileAppend(f, dir, name, b) ==
  (dir :> ((name :> ((IF name \in DOMAIN f[dir] THEN f[dir][name] ELSE <<>>) \o b)) @@ f[dir])) @@ f

\* The file after os.WriteFile stored the bytes b (create or truncate, then write).
PutFile(f, dir, name, b) == (dir :> ((name :> b) @@ f[dir])) @@ f

\* os.Remove of a file.
Remove(f, dir, name) == (dir :> Without(f[dir], name)) @@ f

\* os.RemoveAll of a directory.
RemoveAll(f, dir) == Without(f, dir)

\* ------------------------------------------------------------ path mapping
DotJson == <<".", "j", "s", "o", "n">>

getNamespacePath(namespace) == namespace

\* fmt.Sprintf("%s.json", key)
getFileName(key) == key \o DotJson

\* strings.SplitN(name, ".", 2): split at the first "." only.
FirstDot(name) == IF \E i \in 1..Len(name) : name[i] = "."
                  THEN CHOOSE i \in 1..Len(name) :
                          name[i] = "." /\ \A j \in 1..(i - 1) : name[j] # "."
                  ELSE 0

SplitN2(name) == IF FirstDot(name) = 0 THEN <<name>>
                 ELSE <<SubSeq(name, 1, FirstDot(name) - 1),
                        SubSeq(name, FirstDot(name) + 1, Len(name))>>

\* The test with the extension compared to ".json", which SplitN never yields.
IsJsonDocWithDot(name) == Len(SplitN2(name)) = 2 /\ SplitN2(name)[2] = DotJson

\* The test of GetAll on a directory entry: len(keyParts) == 2 && keyParts[1] == "json".
IsJsonDoc(name) == Len(SplitN2(name)) = 2 /\ SplitN2(name)[2] = <<"j", "s", "o", "n">>

RawKey(name) == SplitN2(name)[1]

\* ----------------------------------------------------------------- backend
\* A backend call returns [fs: the file system after it, err: its DbError code
\* (NoErr for a nil *DbError), out: its value (None for nil), hit: whether the
\* fault offered to it struck one of its system calls].
\* A fault names the system call that fails: "mkdir", "stat", "open", "write",
\* "read", "readdir", "remove", "removeall"; "none" lets every call behave as
\* the file system state dictates.

ensureNamespace(f, namespace, fault) ==
  IF fault = "mkdir" THEN [fs |-> f, ok |-> FALSE]
  ELSE [fs |-> MkdirAll(f, getNamespacePath(namespace)), ok |-> TRUE]

\* os.WriteFile(filePath, value): fails at open (nothing changes) or after the
\* file was created or truncated and n < len(value) bytes were written.
WriteFile(f, dir, name, value, fault, n) ==
  IF fault = "open" THEN [fs |-> f, ok |-> FALSE]
  ELSE IF fault = "write" THEN [fs |-> PutFile(f, dir, name, SubSeq(value, 1, n)), ok |-> FALSE]
  ELSE [fs |-> PutFile(f, dir, name, value), ok |-> TRUE]

\* The guard of Upsert's write: statErr == nil || errors.Is(statErr, os.ErrNotExist).
StatAllowsWrite(fault) == fault # "stat"

Upsert(f, namespace, key, value, fault, n) ==
  LET en == ensureNamespace(f, namespace, fault)
      dir == getNamespacePath(namespace)
      wr == WriteFile(en.fs, dir, getFileName(key), value, fault, n)
  IN IF ~en.ok THEN [fs |-> f, err |-> FILESYSTEM_ERROR, out |-> None, hit |-> TRUE]
     ELSE IF ~StatAllowsWrite(fault)
       THEN [fs |-> en.fs, err |-> NoErr, out |-> None, hit |-> TRUE]
     ELSE IF ~wr.ok
       THEN [fs |-> wr.fs, err |-> FILESYSTEM_ERROR, out |-> None, hit |-> TRUE]
     ELSE [fs |-> wr.fs, err |-> NoErr, out |-> None, hit |-> FALSE]

\* The DbError code Get gives when os.ReadFile fails.
GetReadError == FILESYSTEM_ERROR

Get(f, namespace, key, fault) ==
  LET dir == getNamespacePath(namespace)
      name == getFileName(key)
  IN IF fault = "read"
       THEN [fs |-> f, err |-> GetReadError, out |-> None, hit |-> TRUE]
     ELSE IF ~FileExists(f, dir, name)
       THEN [fs |-> f, err |-> GetReadError, out |-> None, hit |-> FALSE]
     ELSE [fs |-> f, err |-> NoErr, out |-> Some(f[dir][name]), hit |-> FALSE]

\* The DbError code GetAll gives when os.ReadDir fails.
GetAllReadDirError == FILESYSTEM_ERROR

\* The directory entries GetAll reads as records.
JsonDocs(f, dir) == {name \in DOMAIN f[dir] : IsJsonDoc(name)}

GetAll(f, namespace, fault) ==
  LET dir == getNamespacePath(namespace)
  IN IF fault = "readdir"
       THEN [fs |-> f, err |-> GetAllReadDirError, out |-> None, hit |-> TRUE]
     ELSE IF ~DirExists(f, dir)
       THEN [fs |-> f, err |-> GetAllReadDirError, out |-> None, hit |-> FALSE]
     ELSE LET docs == JsonDocs(f, dir)
              got == [name \in docs |-> Get(f, namespace, RawKey(name), fault)]
          IN IF \E name \in docs : got[name].err # NoErr
               THEN [fs |-> f,
                     err |-> got[CHOOSE name \in docs : got[name].err # NoErr].err,
                     out |-> None, hit |-> fault = "read"]
             ELSE [fs |-> f, err |-> NoErr,
                   out |-> Some([k \in {RawKey(name) : name \in docs}
                                   |-> Get(f, namespace, k, fault).out[1]]),
                   hit |-> FALSE]

\* A Delete that removes without the preliminary os.Stat: removing a file that
\* does not exist is then reported as the failure of os.Remove.
DeleteWithoutStat(f, namespace, key, fault) ==
  LET dir == getNamespacePath(namespace)
      name == getFileName(key)
  IN IF fault = "remove" \/ fault = "stat" \/ ~FileExists(f, dir, name)
       THEN [fs |-> f, err |-> FILESYSTEM_ERROR, out |-> None, hit |-> fault \in {"remove", "stat"}]
     ELSE [fs |-> Remove(f, dir, name), err |-> NoErr, out |-> None, hit |-> FALSE]

Delete(f, namespace, key, fault) ==
  LET dir == getNamespacePath(namespace)
      name == getFileName(key)
  IN IF fault = "stat" \/ ~FileExists(f, dir, name)
       THEN [fs |-> f, err |-> ID_NOT_FOUND, out |-> None, hit |-> fault = "stat"]
     ELSE IF fault = "remove"
       THEN [fs |-> f, err |-> FILESYSTEM_ERROR, out |-> None, hit |-> TRUE]
     ELSE [fs |-> Remove(f, dir, name), err |-> NoErr, out |-> None, hit |-> FALSE]

\* os.RemoveAll fails having removed any part of the directory's files: those
\* in kept remain, and so does the directory.
DeleteAll(f, namespace, fault, kept) ==
  LET dir == getNamespacePath(namespace)
  IN IF fault = "removeall"
       THEN [fs |-> IF DirExists(f, dir) THEN (dir :> Restrict(f[dir], kept)) @@ f ELSE f,
             err |-> FILESYSTEM_ERROR, out |-> None, hit |-> TRUE]
     ELSE [fs |-> RemoveAll(f, dir), err |-> NoErr, out |-> None, hit |-> FALSE]

\* The names of the directories below the root; empty when os.ReadDir fails.
GetNamespaces(f, fault) ==
  IF fault = "readdir" THEN [fs |-> f, err |-> NoErr, out |-> Some({}), hit |-> TRUE]
  ELSE [fs |-> f, err |-> NoErr, out |-> Some(DOMAIN f), hit |-> FALSE]

\* ------------------------------------------------- validation (server side)
\* json.Unmarshal(data, &parsed) succeeds.
IsJSON(data) == Len(data) = 2 /\ data[2] = "}"

\* The decoded value of JSON bytes: the set of the object's members.
Decode(data) == {data[i] : i \in 1..(Len(data) - 1)}

\* gojsonschema.Validate(schemaLoader, documentLoader): "error" when either
\* document cannot be loaded, else whether the document satisfies the schema
\* (member r of the schema requires member n of the document).
SchemaValidate(schemaJson, data) ==
  IF ~IsJSON(schemaJson) \/ ~IsJSON(data) THEN "error"
  ELSE IF "{r" \in Decode(schemaJson) /\ "{n" \notin Decode(data) THEN "invalid"
  ELSE "valid"

\* The record of one backend call made by a handler: the call, its result, and
\* what it found and left for (namespace, key): whether the directory and the
\* file existed before it, whether the file's content (or absence) is what it
\* was, whether the file now holds exactly value, and whether the whole file
\* system is what it was.
Call(op, f, namespace, key, value, r) ==
  [op |-> op, ns |-> namespace, key |-> key, val |-> value,
   err |-> r.err, out |-> r.out, hit |-> r.hit,
   preDir |-> DirExists(f, getNamespacePath(namespace)),
   preKey |-> FileExists(f, getNamespacePath(namespace), getFileName(key)),
   intact |-> Content(r.fs, getNamespacePath(namespace), getFileName(key))
                = Content(f, getNamespacePath(namespace), getFileName(key)),
   stored |-> Content(r.fs, getNamespacePath(namespace), getFileName(key)) = value,
   unchanged |-> r.fs = f]

\* The namespace that holds the schema record of a namespace: namespace+SchemaId.
schemaNamespaceShared(namespace) == namespace

schemaNamespace(namespace) == namespace \o SchemaId

\* Whether validate takes the schema branch: dbErr == nil.
SchemaFound(g) == g.err = NoErr

\* validate without its test of result.Valid(): only a schema or a document
\* that cannot be loaded is an error.
validateIgnoringResult(f, namespace, data, fault) ==
  LET g == Get(f, schemaNamespace(namespace), SchemaId, fault)
      c == Call("Get", f, schemaNamespace(namespace), SchemaId, None, g)
  IN IF SchemaFound(g)
       THEN IF SchemaValidate(g.out[1], data) # "error"
              THEN [ok |-> TRUE, parsed |-> Some(Decode(data)), call |-> c]
              ELSE [ok |-> FALSE, parsed |-> None, call |-> c]
     ELSE IF IsJSON(data)
       THEN [ok |-> TRUE, parsed |-> Some(Decode(data)), call |-> c]
     ELSE [ok |-> FALSE, parsed |-> None, call |-> c]

\* validate(namespace, data): [ok, parsed, call: its Get of the schema record].
validate(f, namespace, data, fault) ==
  LET g == Get(f, schemaNamespace(namespace), SchemaId, fault)
      c == Call("Get", f, schemaNamespace(namespace), SchemaId, None, g)
  IN IF SchemaFound(g)
       THEN IF SchemaValidate(g.out[1], data) = "valid"
              THEN [ok |-> TRUE, parsed |-> Some(Decode(data)), call |-> c]
              ELSE [ok |-> FALSE, parsed |-> None, call |-> c]
     ELSE IF IsJSON(data)
       THEN [ok |-> TRUE, parsed |-> Some(Decode(data)), call |-> c]
     ELSE [ok |-> FALSE, parsed |-> None, call |-> c]

\* ------------------------------------------------------------ status codes
\* The switch on dbErr.ErrorCode of keyValueHandler's GET and DELETE.
KeyErrorStatus(code) ==
  CASE code = ID_NOT_FOUND -> StatusNotFound
    [] code = NAMESPACE_NOT_FOUND -> StatusBadRequest
    [] OTHER -> StatusInternalServerError

\* The switch on dbErr.ErrorCode of namespaceHandler and of keyValueHandler's POST.
NamespaceErrorStatus(code) ==
  CASE code = NAMESPACE_NOT_FOUND -> StatusBadRequest
    [] OTHER -> StatusInternalServerError

\* schemaHandler's GET and DELETE answer any backend error alike.
SchemaErrorStatus(code) == StatusNotFound

\* searchHandler answers any GetAll error alike.
SearchErrorStatus(code) == StatusBadRequest

\* ------------------------------------------------------------------- state
VARIABLES
  fs,             \* the directory tree below StorageDatabase.RootDirPath
  brokerEnabled,  \* Server.BrokerEnabled, i.e. s.broker != nil
  faults,         \* the number of system-call failures so far
  last,           \* the last request: its handler, backend calls, responses, events
  abs,            \* history: namespace -> what the calls' results imply it holds
  wiped,          \* history: the namespaces deleted and not written since
  upserted,       \* history: the namespaces written and not deleted since
  req,            \* the request being served step by step (SpecNotify)
  notifier,       \* the content of the broker's Notifier channel
  subs,           \* subscriber -> whether it is connected, and its queue
  procs,          \* handler goroutine -> the request it serves (SpecConc)
  started,        \* the number of requests SpecConc has taken
  lastSent        \* history: namespace, key -> the last event sent about the key
\* fs and brokerEnabled are the program's state.  faults counts what the
\* environment did; last, abs, wiped and upserted are history variables that
\* record calls and results for the properties below and that no handler reads.
\* req, notifier and subs are the state of the specification that serves a
\* request in the steps of its handler next to the broker; procs and started
\* are the state of the specification that serves requests concurrently, each
\* in the steps of its backend call.

histVars == <<faults, last, abs, wiped, upserted>>

brokerVars == <<req, notifier, subs>>

concVars == <<procs, started, lastSent>>

vars == <<fs, brokerEnabled, histVars, brokerVars, concVars>>

SchemaNamespaces == {schemaNamespace(namespace) : namespace \in Namespaces}

AllNamespaces == Namespaces \cup SchemaNamespaces

Mutating == {"Upsert", "Delete", "DeleteAll"}

\* The history of a namespace: absent, present with the records the results of
\* the calls on it imply, or tainted (a system call of a mutating call on it
\* failed since it was last deleted).
Absent == [st |-> "absent", recs |-> <<>>]

Present(recs) == [st |-> "present", recs |-> recs]

Tainted == [st |-> "tainted", recs |-> <<>>]

\* The history after one backend call, from the call and its result alone.
AbsStep(a, c) ==
  IF c.op \notin Mutating THEN a
  ELSE IF c.hit THEN [a EXCEPT ![c.ns] = Tainted]
  ELSE IF c.op = "DeleteAll" /\ c.err = NoErr THEN [a EXCEPT ![c.ns] = Absent]
  ELSE IF a[c.ns] = Tainted \/ c.err # NoErr THEN a
  ELSE IF c.op = "Upsert"
    THEN [a EXCEPT ![c.ns] = Present((c.key :> c.val[1]) @@ a[c.ns].recs)]
  ELSE IF c.op = "Delete"
    THEN [a EXCEPT ![c.ns] = Present(Without(a[c.ns].recs, c.key))]
  ELSE a

\* The namespaces that existed when a DeleteAll on them returned no error, and
\* that no Upsert was called on since.
WipeStep(w, c) ==
  IF c.op = "DeleteAll" /\ c.err = NoErr /\ c.preDir THEN w \cup {c.ns}
  ELSE IF c.op = "Upsert" THEN w \ {c.ns}
  ELSE w

\* The namespaces of the routes on which an Upsert returned no error since the
\* last DeleteAll on them that returned no error.
UpsertedStep(s, c) ==
  IF c.ns \notin Namespaces THEN s
  ELSE IF c.op = "Upsert" /\ c.err = NoErr THEN s \cup {c.ns}
  ELSE IF c.op = "DeleteAll" /\ c.err = NoErr THEN s \ {c.ns}
  ELSE s

\* The data records and the schema records a file system holds.
DataRecords(f) ==
  [namespace \in Namespaces |->
     [key \in Keys |-> Content(f, getNamespacePath(namespace), getFileName(key))]]

SchemaRecords(f) ==
  [namespace \in Namespaces |->
     Content(f, getNamespacePath(schemaNamespace(namespace)), getFileName(SchemaId))]

RECURSIVE FoldCalls(_, _, _)
FoldCalls(Step(_, _), acc, calls) ==
  IF calls = <<>> THEN acc
  ELSE FoldCalls(Step, Step(acc, Head(calls)), Tail(calls))

NoRequest ==
  [h |-> "none", ns |-> <<>>, key |-> <<>>, calls |-> <<>>, status |-> <<>>,
   events |-> <<>>, panicked |-> FALSE, body |-> None,
   same |-> TRUE, dataSame |-> TRUE, schemaSame |-> TRUE]

\* The subscribers of GET /broker.
Subscribers == {"s1"}

\* No request is being served.
Idle ==
  [pc |-> "idle", id |-> 0, h |-> "none", ok |-> FALSE, status |-> 0, event |-> None,
   sent |-> <<>>]

\* The goroutines that serve requests concurrently.
Procs == {"p1", "p2"}

\* A goroutine that serves no request.
NoProc ==
  [h |-> "none", pc |-> "idle", ns |-> <<>>, key |-> <<>>, body |-> None,
   todo |-> <<>>, acc |-> <<>>, err |-> NoErr, out |-> None, status |-> <<>>,
   events |-> <<>>, schema |-> None, seen |-> {}, peer |-> FALSE, event |-> None]

Init ==
  /\ procs = [p \in Procs |-> NoProc]
  /\ started = 0
  /\ lastSent = [namespace \in Namespaces |-> [key \in Keys |-> None]]
  /\ req = Idle
  /\ notifier = <<>>
  /\ subs = [s \in Subscribers |-> [connected |-> FALSE, queue |-> <<>>]]
  /\ fs = EmptyFs
  /\ brokerEnabled \in BOOLEAN
  /\ faults = 0
  /\ last = NoRequest
  /\ abs = [namespace \in AllNamespaces |-> Absent]
  /\ wiped = {}
  /\ upserted = {}

\* A system call may fail while the budget of failures lasts.
CanFault(fault) == fault = "none" \/ faults < MaxFaults

\* The number of bytes a failing write stored.
ShortLens(data, fault) == IF fault = "write" THEN 0..(Len(data) - 1) ELSE {0}

\* Notify's test with the broker taken to exist.
BrokerAssumedPresent == TRUE

\* Notify's test: s.broker != nil.
BrokerPresent == brokerEnabled

\* s.Notify(event): sent to the broker's Notifier when the broker exists.
Notify(event) == IF BrokerPresent THEN <<event>> ELSE <<>>

BrokerEvent(event, namespace, key, value) ==
  [event |-> event, ns |-> namespace, key |-> key, value |-> value]

\* The end of a request: the body it read, the file system it leaves, what it
\* called, the responses it wrote (in order) and the events it sent; and
\* whether the file system, the data records and the schema records are what
\* they were when the request arrived.
FinishBody(h, namespace, key, body, f, calls, status, events, panicked) ==
  \E cs \in {calls} :
    /\ fs' = f
    /\ last' = [h |-> h, ns |-> namespace, key |-> key, calls |-> cs,
                status |-> status, events |-> events, panicked |-> panicked,
                body |-> body, same |-> f = fs,
                dataSame |-> DataRecords(f) = DataRecords(fs),
                schemaSame |-> SchemaRecords(f) = SchemaRecords(fs)]
    /\ faults' = IF \E i \in 1..Len(cs) : cs[i].hit THEN faults + 1 ELSE faults
    /\ abs' = FoldCalls(AbsStep, abs, cs)
    /\ wiped' = FoldCalls(WipeStep, wiped, cs)
    /\ upserted' = FoldCalls(UpsertedStep, upserted, cs)
    /\ UNCHANGED <<brokerEnabled, brokerVars, concVars>>

Finish(h, namespace, key, f, calls, status, events, panicked) ==
  FinishBody(h, namespace, key, None, f, calls, status, events, panicked)

\* ---------------------------------------------------------------- handlers
\* GET /ns
homeHandler ==
  \E fault \in {"none", "readdir"} :
    /\ CanFault(fault)
    /\ LET g == GetNamespaces(fs, fault)
       IN Finish("home", <<>>, <<>>, fs,
                 <<Call("GetNamespaces", fs, <<>>, <<>>, None, g)>>,
                 <<StatusOK>>, <<>>, FALSE)

\* POST /ns/{namespace}
namespacePost ==
  \E namespace \in Namespaces :
    Finish("ns.POST", namespace, <<>>, fs, <<>>, <<StatusNotImplemented>>, <<>>, FALSE)

\* GET /ns/{namespace}
namespaceGet ==
  \E namespace \in Namespaces, fault \in {"none", "readdir", "read"} :
    /\ CanFault(fault)
    /\ LET g == GetAll(fs, namespace, fault)
           c == Call("GetAll", fs, namespace, <<>>, None, g)
       IN Finish("ns.GET", namespace, <<>>, fs, <<c>>,
                 IF g.err # NoErr
                   THEN <<NamespaceErrorStatus(g.err), StatusOK>>
                   ELSE <<StatusOK>>,
                 <<>>, FALSE)

\* DELETE /ns/{namespace}
namespaceDelete ==
  \E namespace \in Namespaces, fault \in {"none", "removeall"} :
    /\ CanFault(fault)
    /\ \E kept \in (IF fault = "removeall" /\ DirExists(fs, getNamespacePath(namespace))
                    THEN SUBSET DOMAIN fs[getNamespacePath(namespace)] ELSE {{}}) :
         LET d == DeleteAll(fs, namespace, fault, kept)
             c == Call("DeleteAll", fs, namespace, <<>>, None, d)
         IN Finish("ns.DELETE", namespace, <<>>, d.fs, <<c>>,
                   IF d.err # NoErr
                     THEN <<NamespaceErrorStatus(d.err), StatusAccepted>>
                     ELSE <<StatusAccepted>>,
                   Notify(BrokerEvent(EVENT_NAMESPACE_DELETED, namespace, <<>>, None)),
                   FALSE)

\* POST /ns/{namespace}/{key}
keyValuePost ==
  \E namespace \in Namespaces, key \in Keys, data \in DataBodies,
     fault \in {"none", "body", "read", "mkdir", "stat", "open", "write"} :
    /\ CanFault(fault)
    /\ \E n \in ShortLens(data, fault) :
         LET v == validate(fs, namespace, data, fault)
             u == Upsert(fs, namespace, key, data, fault, n)
             cu == Call("Upsert", fs, namespace, key, Some(data), u)
         IN IF fault = "body"
              THEN /\ faults' = faults + 1
                   /\ last' = [NoRequest EXCEPT !.h = "kv.POST", !.ns = namespace, !.key = key,
                                                !.status = <<StatusInternalServerError>>]
                   /\ UNCHANGED <<fs, brokerEnabled, abs, wiped, upserted, brokerVars,
                                   concVars>>
            ELSE IF ~v.ok
              THEN FinishBody("kv.POST", namespace, key, Some(data), fs, <<v.call>>,
                              <<StatusBadRequest>>, <<>>, FALSE)
            ELSE IF u.err # NoErr
              THEN FinishBody("kv.POST", namespace, key, Some(data), u.fs, <<v.call, cu>>,
                              <<NamespaceErrorStatus(u.err)>>, <<>>, FALSE)
            ELSE FinishBody("kv.POST", namespace, key, Some(data), u.fs, <<v.call, cu>>,
                            <<StatusCreated>>,
                            Notify(BrokerEvent(EVENT_ITEM_ADDED, namespace, key, v.parsed)),
                            FALSE)

\* GET /ns/{namespace}/{key}
keyValueGet ==
  \E namespace \in Namespaces, key \in Keys, fault \in {"none", "read"} :
    /\ CanFault(fault)
    /\ LET g == Get(fs, namespace, key, fault)
           c == Call("Get", fs, namespace, key, None, g)
       IN Finish("kv.GET", namespace, key, fs, <<c>>,
                 IF g.err # NoErr THEN <<KeyErrorStatus(g.err)>> ELSE <<StatusOK>>,
                 <<>>, FALSE)

\* DELETE /ns/{namespace}/{key}
keyValueDelete ==
  \E namespace \in Namespaces, key \in Keys, fault \in {"none", "stat", "remove"} :
    /\ CanFault(fault)
    /\ LET d == Delete(fs, namespace, key, fault)
           c == Call("Delete", fs, namespace, key, None, d)
       IN IF d.err # NoErr
            THEN Finish("kv.DELETE", namespace, key, d.fs, <<c>>,
                        <<KeyErrorStatus(d.err)>>, <<>>, FALSE)
          ELSE Finish("kv.DELETE", namespace, key, d.fs, <<c>>, <<StatusAccepted>>,
                      Notify(BrokerEvent(EVENT_ITEM_DELETED, namespace, key, None)),
                      FALSE)

\* POST /schema/{namespace}: the error branch calls err.Error() on the nil err
\* of io.ReadAll, so the handler panics before it responds.
schemaPost ==
  \E namespace \in Namespaces, data \in SchemaBodies,
     fault \in {"none", "mkdir", "stat", "open", "write"} :
    /\ CanFault(fault)
    /\ \E n \in ShortLens(data, fault) :
         LET u == Upsert(fs, schemaNamespace(namespace), SchemaId, data, fault, n)
             c == Call("Upsert", fs, schemaNamespace(namespace), SchemaId, Some(data), u)
         IN IF u.err # NoErr
              THEN FinishBody("schema.POST", namespace, <<>>, Some(data), u.fs, <<c>>,
                              <<>>, <<>>, TRUE)
            ELSE FinishBody("schema.POST", namespace, <<>>, Some(data), u.fs, <<c>>,
                            <<StatusCreated>>, <<>>, FALSE)

\* GET /schema/{namespace}
schemaGet ==
  \E namespace \in Namespaces, fault \in {"none", "read"} :
    /\ CanFault(fault)
    /\ LET g == Get(fs, schemaNamespace(namespace), SchemaId, fault)
           c == Call("Get", fs, schemaNamespace(namespace), SchemaId, None, g)
       IN Finish("schema.GET", namespace, <<>>, fs, <<c>>,
                 IF g.err # NoErr THEN <<SchemaErrorStatus(g.err)>> ELSE <<StatusOK>>,
                 <<>>, FALSE)

\* DELETE /schema/{namespace}
schemaDelete ==
  \E namespace \in Namespaces, fault \in {"none", "stat", "remove"} :
    /\ CanFault(fault)
    /\ LET d == Delete(fs, schemaNamespace(namespace), SchemaId, fault)
           c == Call("Delete", fs, schemaNamespace(namespace), SchemaId, None, d)
       IN Finish("schema.DELETE", namespace, <<>>, d.fs, <<c>>,
                 IF d.err # NoErr THEN <<SchemaErrorStatus(d.err)>> ELSE <<StatusAccepted>>,
                 <<>>, FALSE)

\* GET /search/{namespace}?filter=...: the filter may not parse, and running it
\* on a document may yield an error (both decided by the jq evaluator).
searchHandler ==
  \E namespace \in Namespaces, fault \in {"none", "readdir", "read"},
     filterOk \in BOOLEAN, queryErr \in BOOLEAN :
    /\ CanFault(fault)
    /\ LET g == GetAll(fs, namespace, fault)
           c == Call("GetAll", fs, namespace, <<>>, None, g)
       IN IF ~filterOk
            THEN /\ ~queryErr /\ fault = "none"
                 /\ Finish("search.GET", namespace, <<>>, fs, <<>>,
                           <<StatusBadRequest>>, <<>>, FALSE)
          ELSE IF g.err # NoErr
            THEN /\ ~queryErr
                 /\ Finish("search.GET", namespace, <<>>, fs, <<c>>,
                           <<SearchErrorStatus(g.err)>>, <<>>, FALSE)
          ELSE IF \E k \in DOMAIN g.out[1] : ~IsJSON(g.out[1][k])
            THEN /\ ~queryErr
                 /\ Finish("search.GET", namespace, <<>>, fs, <<c>>,
                           <<StatusInternalServerError>>, <<>>, FALSE)
          ELSE IF queryErr
            THEN /\ DOMAIN g.out[1] # {}
                 /\ Finish("search.GET", namespace, <<>>, fs, <<c>>,
                           <<StatusInternalServerError>>, <<>>, FALSE)
          ELSE Finish("search.GET", namespace, <<>>, fs, <<c>>, <<StatusOK>>, <<>>, FALSE)

Next ==
  \/ homeHandler
  \/ namespacePost
  \/ namespaceGet
  \/ namespaceDelete
  \/ keyValuePost
  \/ keyValueGet
  \/ keyValueDelete
  \/ schemaPost
  \/ schemaGet
  \/ schemaDelete
  \/ searchHandler

Spec == Init /\ [][Next]_vars

\* ------------------------------------------- a request next to the broker
\* What a mutating request does up to its call of Notify when no system call
\* fails: the file system it leaves, whether it goes on to Notify, the status
\* it will answer and the event it passes to Notify.
Mutation(f, h, namespace, key, data) ==
  IF h = "kv.POST"
    THEN LET v == validate(f, namespace, data, "none")
             u == Upsert(f, namespace, key, data, "none", 0)
         IN IF ~v.ok
              THEN [fs |-> f, ok |-> FALSE, status |-> StatusBadRequest, event |-> None]
            ELSE IF u.err # NoErr
              THEN [fs |-> u.fs, ok |-> FALSE, status |-> NamespaceErrorStatus(u.err),
                    event |-> None]
            ELSE [fs |-> u.fs, ok |-> TRUE, status |-> StatusCreated,
                  event |-> Some(BrokerEvent(EVENT_ITEM_ADDED, namespace, key, v.parsed))]
  ELSE IF h = "kv.DELETE"
    THEN LET d == Delete(f, namespace, key, "none")
         IN IF d.err # NoErr
              THEN [fs |-> d.fs, ok |-> FALSE, status |-> KeyErrorStatus(d.err),
                    event |-> None]
            ELSE [fs |-> d.fs, ok |-> TRUE, status |-> StatusAccepted,
                  event |-> Some(BrokerEvent(EVENT_ITEM_DELETED, namespace, key, None))]
  ELSE LET d == DeleteAll(f, namespace, "none", {})
       IN [fs |-> d.fs, ok |-> TRUE, status |-> StatusAccepted,
           event |-> Some(BrokerEvent(EVENT_NAMESPACE_DELETED, namespace, <<>>, None))]

\* A handler takes a mutating request and runs it up to its call of Notify.
serveMutation ==
  /\ req.pc \in {"idle", "done", "panicked"}
  /\ req.id < MaxRequests
  /\ \E h \in {"kv.POST", "kv.DELETE", "ns.DELETE"}, namespace \in Namespaces,
        key \in Keys, data \in DataBodies :
       /\ h # "kv.POST" => data = Good
       /\ h = "ns.DELETE" => key = <<"1">>
       /\ LET m == Mutation(fs, h, namespace, key, data)
          IN /\ fs' = m.fs
             /\ req' = [pc |-> IF m.ok THEN "notify" ELSE "respond", id |-> req.id + 1,
                        h |-> h, ok |-> m.ok, status |-> m.status, event |-> m.event,
                        sent |-> <<>>]
  /\ UNCHANGED <<brokerEnabled, histVars, concVars, notifier, subs>>

\* The handler's call of Notify: nothing without a broker; else the send
\* s.broker.Notifier <- jsonData, which waits while the channel is full (and
\* dereferences a nil broker when the test let a missing broker through).
notifySend ==
  /\ req.pc = "notify"
  /\ IF ~BrokerPresent
       THEN req' = [req EXCEPT !.pc = "respond"] /\ UNCHANGED notifier
     ELSE IF ~brokerEnabled
       THEN req' = [req EXCEPT !.pc = "panicked"] /\ UNCHANGED notifier
     ELSE /\ Len(notifier) < NotifierCap
          /\ notifier' = Append(notifier, req.event[1])
          /\ req' = [req EXCEPT !.pc = "respond"]
  /\ UNCHANGED <<fs, brokerEnabled, histVars, concVars, subs>>

\* The handler writes its response.
respond ==
  /\ req.pc = "respond"
  /\ req' = [req EXCEPT !.pc = "done", !.sent = <<req.status>>]
  /\ UNCHANGED <<fs, brokerEnabled, histVars, concVars, notifier, subs>>

\* The broker's consumer takes the next event off the Notifier and hands it to
\* every connected subscriber without waiting: a subscriber whose queue is
\* full misses the event.
brokerListen ==
  /\ notifier # <<>>
  /\ notifier' = Tail(notifier)
  /\ subs' = [s \in Subscribers |->
               IF subs[s].connected /\ Len(subs[s].queue) < SubscriberCap
                 THEN [subs[s] EXCEPT !.queue = Append(@, Head(notifier))]
                 ELSE subs[s]]
  /\ UNCHANGED <<fs, brokerEnabled, histVars, concVars, req>>

\* A client connects to GET /broker, which exists when the broker is enabled.
subscribe ==
  \E s \in Subscribers :
    /\ brokerEnabled
    /\ ~subs[s].connected
    /\ subs' = [subs EXCEPT ![s] = [connected |-> TRUE, queue |-> <<>>]]
    /\ UNCHANGED <<fs, brokerEnabled, histVars, concVars, req, notifier>>

\* A subscriber disconnects.
unsubscribe ==
  \E s \in Subscribers :
    /\ subs[s].connected
    /\ subs' = [subs EXCEPT ![s] = [connected |-> FALSE, queue |-> <<>>]]
    /\ UNCHANGED <<fs, brokerEnabled, histVars, concVars, req, notifier>>

\* A subscriber reads the next event of its queue; it may never do so.
receive ==
  \E s \in Subscribers :
    /\ subs[s].queue # <<>>
    /\ subs' = [subs EXCEPT ![s].queue = Tail(@)]
    /\ UNCHANGED <<fs, brokerEnabled, histVars, concVars, req, notifier>>

NextNotify ==
  \/ serveMutation
  \/ notifySend
  \/ respond
  \/ brokerListen
  \/ subscribe
  \/ unsubscribe
  \/ receive

\* The handler's goroutine and the broker's consumer goroutine are scheduled
\* whenever they can run; clients and subscribers are not obliged to act.
SpecNotify ==
  /\ Init
  /\ [][NextNotify]_vars
  /\ WF_vars(notifySend)
  /\ WF_vars(respond)
  /\ WF_vars(brokerListen)

\* ------------------------------------------------------ concurrent requests
\* net/http serves every request in a goroutine of its own, and the backend
\* takes no lock: the steps of concurrent backend calls interleave at their
\* system calls.

\* The order in which os.ReadDir returns the records of a namespace: sorted by
\* file name.
ReadDirOrder == <<getFileName(<<"1">>), getFileName(<<"2">>)>>

\* GetAll's os.ReadDir and its filter: the keys to read, in order.
GetAllList(f, namespace) ==
  LET dir == getNamespacePath(namespace)
      IsListed(name) == name \in JsonDocs(f, dir)
      names == SelectSeq(ReadDirOrder, IsListed)
  IN IF ~DirExists(f, dir) THEN [err |-> GetAllReadDirError, todo |-> <<>>]
     ELSE [err |-> NoErr, todo |-> [i \in 1..Len(names) |-> RawKey(names[i])]]

\* Delete's os.Stat: err == nil.
DeleteStat(f, namespace, key) ==
  FileExists(f, getNamespacePath(namespace), getFileName(key))

\* Delete's os.Remove, which fails on a file that is no longer there.
DeleteRemove(f, namespace, key) ==
  LET dir == getNamespacePath(namespace)
      name == getFileName(key)
  IN IF ~FileExists(f, dir, name) THEN [fs |-> f, err |-> FILESYSTEM_ERROR]
     ELSE [fs |-> Remove(f, dir, name), err |-> NoErr]

\* What a namespace holds: nothing when it does not exist, else its records.
NamespaceContent(f, namespace) ==
  LET dir == getNamespacePath(namespace)
  IN IF ~DirExists(f, dir) THEN None
     ELSE Some([k \in {RawKey(name) : name \in JsonDocs(f, dir)}
                  |-> f[dir][getFileName(k)]])

\* History: every GetAll in progress sees what its namespace holds after a step.
Observe(ps, f) ==
  [q \in Procs |->
     IF ps[q].h = "ns.GET" /\ ps[q].pc \in {"readdir", "read"}
       THEN [ps[q] EXCEPT !.seen = @ \cup {NamespaceContent(f, ps[q].ns)}]
       ELSE ps[q]]

\* The first step of each handler.
FirstStep(h) ==
  CASE h = "kv.POST" -> "validate"
    [] h = "schema.POST" -> "upsert"
    [] h = "kv.DELETE" -> "stat"
    [] h = "ns.DELETE" -> "removeall"
    [] OTHER -> "readdir"

\* Whether another goroutine is inside a Delete of the same key.
DeletingToo(p, namespace, key) ==
  {q \in Procs \ {p} : /\ procs[q].h = "kv.DELETE" /\ procs[q].pc \in {"stat", "remove"}
                        /\ procs[q].ns = namespace /\ procs[q].key = key}

\* A goroutine takes a request.  History: two Deletes of one key that exists
\* when the second arrives while the first is in progress are marked peers.
cRequest(p) ==
  /\ procs[p].pc \in {"idle", "done"}
  /\ started < MaxConcRequests
  /\ started' = started + 1
  /\ \E h \in {"kv.POST", "schema.POST", "kv.DELETE", "ns.DELETE", "ns.GET"},
        namespace \in Namespaces, key \in Keys, data \in {Good, Bad} :
       /\ h \in {"schema.POST", "ns.DELETE", "ns.GET"} => key = <<"1">>
       /\ h # "kv.POST" => data = Good
       /\ LET peers == IF h = "kv.DELETE" /\ DeleteStat(fs, namespace, key)
                         THEN DeletingToo(p, namespace, key) ELSE {}
          IN procs' =
               [q \in Procs |->
                  IF q = p
                    THEN [NoProc EXCEPT
                            !.h = h, !.pc = FirstStep(h), !.ns = namespace,
                            !.key = IF h \in {"kv.POST", "kv.DELETE"} THEN key ELSE <<>>,
                            !.body = IF h = "kv.POST" THEN Some(data)
                                     ELSE IF h = "schema.POST" THEN Some(SchemaDoc)
                                     ELSE None,
                            !.seen = IF h = "ns.GET" THEN {NamespaceContent(fs, namespace)}
                                     ELSE {},
                            !.peer = peers # {}]
                  ELSE IF q \in peers THEN [procs[q] EXCEPT !.peer = TRUE]
                  ELSE procs[q]]
  /\ UNCHANGED <<fs, brokerEnabled, histVars, brokerVars, lastSent>>

\* The end of a request served by goroutine p.
Done(p, f, err, out, status, events) ==
  /\ fs' = f
  /\ procs' = Observe([procs EXCEPT ![p].pc = "done", ![p].err = err, ![p].out = out,
                                     ![p].status = status, ![p].events = events,
                                     ![p].todo = <<>>, ![p].acc = <<>>], f)
  /\ UNCHANGED <<started, brokerEnabled, histVars, brokerVars, lastSent>>

\* The backend call of goroutine p took effect: its handler goes on to Notify.
ToNotify(p, f, err, status, event) ==
  /\ fs' = f
  /\ procs' = Observe([procs EXCEPT ![p].pc = "notify", ![p].err = err,
                                     ![p].status = status, ![p].event = Some(event)], f)
  /\ UNCHANGED <<started, brokerEnabled, histVars, brokerVars, lastSent>>

\* A step of goroutine p that is not the last of its request.
Goto(p, pc, todo, acc) ==
  /\ procs' = [procs EXCEPT ![p].pc = pc, ![p].todo = todo, ![p].acc = acc]
  /\ UNCHANGED <<fs, started, brokerEnabled, histVars, brokerVars, lastSent>>

\* keyValueHandler's POST: validate(namespace, data).
cValidate(p) ==
  /\ procs[p].pc = "validate"
  /\ LET v == validate(fs, procs[p].ns, procs[p].body[1], "none")
     IN IF ~v.ok THEN Done(p, fs, NoErr, None, <<StatusBadRequest>>, <<>>)
        ELSE Goto(p, "upsert", <<>>, <<>>)

\* The Upsert of keyValueHandler's and of schemaHandler's POST; the latter
\* responds, the former goes on to Notify when Upsert returned no error.
\* History: the schema record present when the value is stored.
cUpsert(p) ==
  /\ procs[p].pc = "upsert"
  /\ LET r == procs[p]
         namespace == IF r.h = "schema.POST" THEN schemaNamespace(r.ns) ELSE r.ns
         key == IF r.h = "schema.POST" THEN SchemaId ELSE r.key
         u == Upsert(fs, namespace, key, r.body[1], "none", 0)
         event == BrokerEvent(EVENT_ITEM_ADDED, r.ns, r.key, Some(Decode(r.body[1])))
         notifies == r.h = "kv.POST" /\ u.err = NoErr
     IN /\ fs' = u.fs
        /\ procs' = Observe([procs EXCEPT
                               ![p].pc = IF notifies THEN "notify" ELSE "done",
                               ![p].err = u.err,
                               ![p].status = IF u.err = NoErr THEN <<StatusCreated>>
                                             ELSE IF r.h = "schema.POST" THEN <<>>
                                             ELSE <<NamespaceErrorStatus(u.err)>>,
                               ![p].event = IF notifies THEN Some(event) ELSE None,
                               ![p].schema = SchemaRecords(fs)[r.ns]], u.fs)
        /\ UNCHANGED <<started, brokerEnabled, histVars, brokerVars, lastSent>>

\* Delete's os.Stat.
cStat(p) ==
  /\ procs[p].pc = "stat"
  /\ IF DeleteStat(fs, procs[p].ns, procs[p].key)
       THEN Goto(p, "remove", <<>>, <<>>)
       ELSE Done(p, fs, ID_NOT_FOUND, None, <<KeyErrorStatus(ID_NOT_FOUND)>>, <<>>)

\* Delete's os.Remove; keyValueHandler's DELETE responds to an error and
\* else goes on to Notify.
cRemove(p) ==
  /\ procs[p].pc = "remove"
  /\ LET d == DeleteRemove(fs, procs[p].ns, procs[p].key)
         event == BrokerEvent(EVENT_ITEM_DELETED, procs[p].ns, procs[p].key, None)
     IN IF d.err # NoErr
          THEN Done(p, d.fs, d.err, None, <<KeyErrorStatus(d.err)>>, <<>>)
          ELSE ToNotify(p, d.fs, NoErr, <<StatusAccepted>>, event)

\* namespaceHandler's DELETE: DeleteAll (os.RemoveAll); it goes on to Notify
\* whatever DeleteAll returned.
cRemoveAll(p) ==
  /\ procs[p].pc = "removeall"
  /\ LET d == DeleteAll(fs, procs[p].ns, "none", {})
         event == BrokerEvent(EVENT_NAMESPACE_DELETED, procs[p].ns, <<>>, None)
     IN ToNotify(p, d.fs, d.err,
                 IF d.err # NoErr THEN <<NamespaceErrorStatus(d.err), StatusAccepted>>
                 ELSE <<StatusAccepted>>,
                 event)

\* GetAll's os.ReadDir; namespaceHandler's GET answers twice on an error.
cReadDir(p) ==
  /\ procs[p].pc = "readdir"
  /\ LET l == GetAllList(fs, procs[p].ns)
     IN IF l.err # NoErr
          THEN Done(p, fs, l.err, None, <<NamespaceErrorStatus(l.err), StatusOK>>, <<>>)
        ELSE IF l.todo = <<>> THEN Done(p, fs, NoErr, Some(<<>>), <<StatusOK>>, <<>>)
        ELSE Goto(p, "read", l.todo, <<>>)

\* GetAll's Get of the next listed key: an error ends GetAll.
cRead(p) ==
  /\ procs[p].pc = "read"
  /\ LET r == procs[p]
         g == Get(fs, r.ns, Head(r.todo), "none")
         acc == (Head(r.todo) :> g.out[1]) @@ r.acc
     IN IF g.err # NoErr
          THEN Done(p, fs, g.err, None, <<NamespaceErrorStatus(g.err), StatusOK>>, <<>>)
        ELSE IF Tail(r.todo) = <<>> THEN Done(p, fs, NoErr, Some(acc), <<StatusOK>>, <<>>)
        ELSE Goto(p, "read", Tail(r.todo), acc)

\* History: the last event sent to the broker about each key.  An item event
\* is the last about its key; once NAMESPACE_DELETED was sent for a namespace
\* it stays recorded for every key of it, so that the keys whose record shows
\* an item event were written and deleted by item requests alone.
SentStep(l, event) ==
  [namespace \in Namespaces |->
     [key \in Keys |->
        IF namespace # event.ns THEN l[namespace][key]
        ELSE IF l[namespace][key] = None
          THEN IF event.event = EVENT_NAMESPACE_DELETED \/ event.key = key
                 THEN Some(event) ELSE None
        ELSE IF l[namespace][key][1].event = EVENT_NAMESPACE_DELETED THEN l[namespace][key]
        ELSE IF event.event = EVENT_NAMESPACE_DELETED \/ event.key = key THEN Some(event)
        ELSE l[namespace][key]]]

\* The handler's s.Notify(event) after its backend call, and its response.
cNotify(p) ==
  /\ procs[p].pc = "notify"
  /\ procs' = [procs EXCEPT ![p].pc = "done", ![p].events = Notify(procs[p].event[1])]
  /\ lastSent' = IF Notify(procs[p].event[1]) = <<>> THEN lastSent
                 ELSE SentStep(lastSent, procs[p].event[1])
  /\ UNCHANGED <<fs, started, brokerEnabled, histVars, brokerVars>>

NextConc ==
  \E p \in Procs :
    \/ cRequest(p)
    \/ cValidate(p)
    \/ cUpsert(p)
    \/ cStat(p)
    \/ cRemove(p)
    \/ cRemoveAll(p)
    \/ cNotify(p)
    \/ cReadDir(p)
    \/ cRead(p)

SpecConc == Init /\ [][NextConc]_vars

\* ------------------------------------------------------------------ claims
LastCalls == {last.calls[i] : i \in 1..Len(last.calls)}

\* C1: a Get(N,K) whose read does not fail, after calls on N of which none
\* suffered a failing system call and whose results say that the last Upsert
\* of K stored v and no Delete or DeleteAll removed it since, returns exactly
\* v and no error (so a second Upsert replaces the first value); and such an
\* Upsert that returns no error leaves the file holding exactly its value.
C1_RoundTrip ==
  \A c \in LastCalls :
    /\ (c.op = "Get" /\ ~c.hit /\ abs[c.ns].st = "present" /\ c.key \in DOMAIN abs[c.ns].recs)
         => (c.err = NoErr /\ c.out = Some(abs[c.ns].recs[c.key]))
    /\ (c.op = "Upsert" /\ ~c.hit) => (c.err = NoErr /\ c.stored)

\* A GET of a key returned the value Bad, which the history says was upserted last.
C1_Witness ==
  /\ last.h = "kv.GET"
  /\ last.calls[1].err = NoErr
  /\ last.calls[1].out = Some(Bad)
  /\ abs[last.ns] = Present(abs[last.ns].recs)
  /\ abs[last.ns].recs[last.key] = Bad

\* C2: while no system call has failed, a Get(N,K) of a key that is absent
\* returns ID_NOT_FOUND when the namespace exists and NAMESPACE_NOT_FOUND when
\* it does not.
C2_GetErrorKinds ==
  faults = 0 =>
    \A c \in LastCalls :
      (c.op = "Get" /\ ~c.preKey)
        => (c.err = IF c.preDir THEN ID_NOT_FOUND ELSE NAMESPACE_NOT_FOUND)

\* C3: a GetAll(N) whose reads do not fail, after successful Upserts and
\* Deletes on N of which none suffered a failing system call, returns without
\* error exactly the mapping those results imply: the keys upserted and not
\* deleted since, each with the value of its last Upsert.
C3_GetAllExact ==
  \A c \in LastCalls :
    (c.op = "GetAll" /\ ~c.hit /\ abs[c.ns].st = "present")
      => (c.err = NoErr /\ c.out = Some(abs[c.ns].recs))

\* A GET of the namespace returned two records with different values.
C3_Witness ==
  /\ last.h = "ns.GET"
  /\ last.calls[1].err = NoErr
  /\ abs[last.ns].st = "present"
  /\ DOMAIN last.calls[1].out[1] = Keys
  /\ \E k1, k2 \in Keys : last.calls[1].out[1][k1] # last.calls[1].out[1][k2]

\* C4: while no system call has failed, after a successful DeleteAll(N) of an
\* existing namespace and until N is written again, GetAll(N) returns
\* NAMESPACE_NOT_FOUND or an empty mapping with no error.
C4_GetAllAfterDeleteAll ==
  faults = 0 =>
    \A c \in LastCalls :
      (c.op = "GetAll" /\ c.ns \in wiped)
        => (c.err = NAMESPACE_NOT_FOUND \/ (c.err = NoErr /\ c.out = Some(<<>>)))

\* C5: a Delete(N,K) of a key that is absent (never written, deleted, or in a
\* namespace that does not exist) returns ID_NOT_FOUND and changes nothing,
\* every time, whatever its system calls do.
C5_DeleteAbsent ==
  \A c \in LastCalls :
    (c.op = "Delete" /\ ~c.preKey) => (c.err = ID_NOT_FOUND /\ c.unchanged)

\* A DELETE of a key answered not-found although the history says the key was
\* written and deleted before (its namespace is present without it).
C5_Witness ==
  /\ last.h = "kv.DELETE"
  /\ last.calls[1].err = ID_NOT_FOUND
  /\ last.calls[1].preDir
  /\ ~last.calls[1].preKey
  /\ abs[last.ns].st = "present"
  /\ last.key \notin DOMAIN abs[last.ns].recs

\* C6: while no system call has failed, a DeleteAll(N) of a namespace that
\* does not exist returns NAMESPACE_NOT_FOUND.
C6_DeleteAllMissing ==
  faults = 0 =>
    \A c \in LastCalls :
      (c.op = "DeleteAll" /\ ~c.preDir) => c.err = NAMESPACE_NOT_FOUND

\* The last request was a mutating request (POST or DELETE of a key, DELETE of
\* a namespace) whose validation or backend call failed.
FailedMutation ==
  /\ last.h \in {"kv.POST", "kv.DELETE", "ns.DELETE"}
  /\ ~\E c \in LastCalls : c.op \in Mutating /\ c.err = NoErr

\* C7: a mutating request whose validation or backend call returned an error
\* sends no event to the broker.
C7_NoEventOnFailure == FailedMutation => last.events = <<>>

\* The event that describes a successful mutating call.
Describes(e, c) ==
  /\ e.ns = c.ns
  /\ e.key = c.key
  /\ e.event = (CASE c.op = "Upsert" -> EVENT_ITEM_ADDED
                  [] c.op = "Delete" -> EVENT_ITEM_DELETED
                  [] OTHER -> EVENT_NAMESPACE_DELETED)

\* C8: with the broker enabled and while no system call has failed, a request
\* whose mutating backend call (on a data or a schema record) succeeded sends
\* exactly one event, describing it.
C8_EventPerMutation ==
  (brokerEnabled /\ faults = 0) =>
    \A c \in LastCalls :
      (c.op \in Mutating /\ c.err = NoErr)
        => (Len(last.events) = 1 /\ Describes(last.events[1], c))

\* The status the error kind is to be answered with.
StatusOfKind(code) ==
  CASE code = ID_NOT_FOUND -> StatusNotFound
    [] code = NAMESPACE_NOT_FOUND -> StatusBadRequest
    [] OTHER -> StatusInternalServerError

\* The backend calls whose error the handler answers: all but validate's
\* lookup of the schema record, whose failure means "no schema".
AnsweredCalls == {c \in LastCalls : ~(last.h = "kv.POST" /\ c.op = "Get")}

\* C9: while no system call has failed, in every handler that calls the
\* backend a backend error is answered with the status of its kind: 404 for
\* ID_NOT_FOUND, 400 for NAMESPACE_NOT_FOUND, 500 for any other.
C9_StatusOfErrorKind ==
  faults = 0 =>
    \A c \in AnsweredCalls :
      c.err # NoErr => (last.status # <<>> /\ Head(last.status) = StatusOfKind(c.err))

\* C10: after Upsert(N,K,v) on a key holding p the record holds exactly p or
\* exactly v, and exactly p (or is still absent) when Upsert returned an error.
C10_NoPartialWrite ==
  \A c \in LastCalls :
    c.op = "Upsert" => ((c.intact \/ c.stored) /\ (c.err # NoErr => c.intact))

Rejected(body, schema) ==
  IF schema # None THEN SchemaValidate(schema[1], body) # "valid" ELSE ~IsJSON(body)

\* C12: a POST /ns/N/K whose body is to be rejected, and whose lookup of the
\* schema record met no failing system call, is answered 400 and nothing else,
\* leaves the whole file system as it was (so N is not created) and sends no
\* event.
C12_RejectedWriteNoEffect ==
  (/\ last.h = "kv.POST" /\ last.body # None /\ last.calls # <<>>
   /\ ~last.calls[1].hit
   /\ Rejected(last.body[1], SchemaRecords(fs)[last.ns]))
    => (/\ last.status = <<StatusBadRequest>>
        /\ last.same
        /\ Len(last.calls) = 1
        /\ last.events = <<>>)

\* A body that violates the registered schema was rejected while the broker is
\* enabled, and the namespace still does not exist.
C12_Witness ==
  /\ last.h = "kv.POST" /\ last.body = Some(Bad) /\ brokerEnabled
  /\ SchemaRecords(fs)[last.ns] = Some(SchemaDoc)
  /\ last.status = <<StatusBadRequest>>
  /\ ~DirExists(fs, getNamespacePath(last.ns))

\* The requests served concurrently that have been answered.
Answered(h) == {p \in Procs : procs[p].h = h /\ procs[p].pc = "done"}

\* C13: a POST /ns/N/K that stored its value while a schema record of N was
\* present at the moment of the Upsert stored a value that satisfies it.
C13_SchemaEnforcedAtCommit ==
  \A p \in Answered("kv.POST") :
    (procs[p].status = <<StatusCreated>> /\ procs[p].schema # None)
      => SchemaValidate(procs[p].schema[1], procs[p].body[1]) = "valid"

\* C16: of two Deletes of one key, the second arriving while the first is in
\* progress and the key exists, exactly one returns no error and the other
\* returns ID_NOT_FOUND; with the broker enabled they send one event in all.
C16_ConcurrentDelete ==
  \A p, q \in Answered("kv.DELETE") :
    (p # q /\ procs[p].peer /\ procs[q].peer /\ procs[p].key = procs[q].key)
      => (/\ {procs[p].err, procs[q].err} = {NoErr, ID_NOT_FOUND}
          /\ brokerEnabled => Len(procs[p].events) + Len(procs[q].events) = 1)

\* C17: a GetAll during which the namespace existed throughout returns no
\* error and a mapping that the namespace held at some instant between the
\* call and the return.
C17_GetAllSnapshot ==
  \A p \in Answered("ns.GET") :
    None \notin procs[p].seen
      => (procs[p].err = NoErr /\ procs[p].out \in procs[p].seen)

\* C14: a GetNamespaces whose os.ReadDir does not fail returns no error and,
\* among the namespaces of the routes, exactly those on which an Upsert
\* returned no error since the last DeleteAll on them that returned no error.
C14_GetNamespacesExact ==
  \A c \in LastCalls :
    (c.op = "GetNamespaces" /\ ~c.hit)
      => (/\ c.err = NoErr
          /\ c.out # None
          /\ {namespace \in Namespaces : getNamespacePath(namespace) \in c.out[1]}
               = upserted)

\* C15: an Upsert that returns no error has stored exactly its value.
C15_UpsertStoresOrFails ==
  \A c \in LastCalls : (c.op = "Upsert" /\ c.err = NoErr) => c.stored

\* The handlers of the data routes and of the schema route.
DataHandlers == {"ns.POST", "ns.GET", "ns.DELETE", "kv.POST", "kv.GET", "kv.DELETE",
                 "search.GET"}

SchemaHandlers == {"schema.POST", "schema.GET", "schema.DELETE"}

\* The backend calls of a request of a data route that return or change
\* records: all but validate's lookup, whose result is not sent to the client.
RecordCalls == {c \in LastCalls : ~(last.h = "kv.POST" /\ c.op = "Get")}

\* C18: a request of a data route leaves every schema record as it was and
\* its record calls address a namespace that holds no schema record, so
\* DELETE /ns/N keeps the schema of N; a request of the schema route leaves
\* every data record as it was, addresses only key "_schema" of N+"_schema",
\* and a POST on it is not validated: it makes no lookup, and when no system
\* call fails it stores its body, valid JSON or not, and answers 201.
C18_SchemaIsolation ==
  /\ last.h \in DataHandlers
       => (/\ last.schemaSame
           /\ \A c \in RecordCalls :
                c.ns \in Namespaces /\ c.ns \notin SchemaNamespaces /\ c.key # SchemaId)
  /\ last.h \in SchemaHandlers
       => (/\ last.dataSame
           /\ \A c \in LastCalls : c.ns = last.ns \o SchemaId /\ c.key = SchemaId)
  /\ last.h = "schema.POST"
       => \A c \in LastCalls :
            /\ c.op = "Upsert"
            /\ ~c.hit => (/\ last.status = <<StatusCreated>>
                          /\ Content(fs, getNamespacePath(last.ns \o SchemaId),
                                     getFileName(SchemaId)) = last.body)

\* DELETE /ns/N removed an existing namespace that held a record while the
\* schema of N was registered, and the schema record is still there.
C18_Witness ==
  /\ last.h = "ns.DELETE"
  /\ \E c \in LastCalls : c.err = NoErr /\ c.preDir /\ ~c.unchanged
  /\ ~DirExists(fs, getNamespacePath(last.ns))
  /\ Content(fs, getNamespacePath(last.ns \o SchemaId), getFileName(SchemaId))
       = Some(SchemaDoc)

\* C19: a POST /schema/N whose backend Upsert returned an error does not panic
\* and writes exactly one response, which is not 201.
C19_SchemaPostBackendError ==
  (last.h = "schema.POST" /\ \E c \in LastCalls : c.op = "Upsert" /\ c.err # NoErr)
    => (~last.panicked /\ Len(last.status) = 1 /\ last.status[1] # StatusCreated)

\* C20: GET /ns/N and DELETE /ns/N write exactly one response, and when the
\* backend call returned an error it is the error response.
C20_OneResponse ==
  last.h \in {"ns.GET", "ns.DELETE"}
    => (/\ Len(last.status) = 1
        /\ \A c \in LastCalls :
             c.err # NoErr => last.status = <<NamespaceErrorStatus(c.err)>>)

\* C21: with the broker enabled and every request served concurrently
\* answered, the last event sent about a key written and deleted by
\* POST /ns/N/K and DELETE /ns/N/K alone describes what the store holds:
\* ITEM_ADDED carries the decoded stored value, ITEM_DELETED means the key is
\* absent.
C21_LastEventDescribesStore ==
  (brokerEnabled /\ \A p \in Procs : procs[p].pc \in {"idle", "done"})
    => \A namespace \in Namespaces, key \in Keys :
         LET l == lastSent[namespace][key]
             stored == Content(fs, getNamespacePath(namespace), getFileName(key))
         IN (l # None /\ l[1].event # EVENT_NAMESPACE_DELETED)
              => IF l[1].event = EVENT_ITEM_ADDED
                   THEN stored # None /\ l[1].value = Some(Decode(stored[1]))
                   ELSE stored = None

====
